---- MODULE Spec2Model ----
(***************************************************************************)
(* Batch transcription pipeline of transcribe_final.py: bootstrap,         *)
(* discovery of the media files of the working directory, the per-file     *)
(* loop (resume check, Recognizer call, SRT serialization, counters), the  *)
(* final summary and the exit code of the process.  The same directory can *)
(* be processed by several successive runs of the script.                  *)
(*                                                                         *)
(* File names, lines and texts are sequences of one-character strings.     *)
(* A time is written as a decimal number of milliseconds ms and stands for *)
(* the binary64 float nearest to ms/1000, which is what a float literal or *)
(* a parsed decimal gives; format_timestamp is computed in the arithmetic  *)
(* of those floats.                                                        *)
(***************************************************************************)
EXTENDS Integers, Sequences, FiniteSets, TLC

\* ------------------------------------------------------------------ bounds
\* Number of successive runs of the script over the same directory.
MaxRuns == 2
\* Largest number of segments the Recognizer returns for one file.
MaxSegs == 2

\* --------------------------------------------------------------- characters
\* Code points of the characters used in file names.
Ord(c) ==
  CASE c = "." -> 46 [] c = "3" -> 51 [] c = "4" -> 52
    [] c = "K" -> 75 [] c = "M" -> 77 [] c = "P" -> 80 [] c = "V" -> 86
    [] c = "a" -> 97 [] c = "b" -> 98 [] c = "f" -> 102 [] c = "k" -> 107
    [] c = "l" -> 108 [] c = "m" -> 109 [] c = "o" -> 111 [] c = "p" -> 112
    [] c = "r" -> 114 [] c = "s" -> 115 [] c = "t" -> 116 [] c = "v" -> 118
    [] c = "w" -> 119 [] c = "A" -> 65 [] c = "W" -> 87 [] c = "c" -> 99
    [] c = "i" -> 105

\* str.lower() on one character (case folding of a Windows path).
Lower(c) ==
  CASE c = "K" -> "k" [] c = "M" -> "m" [] c = "P" -> "p" [] c = "V" -> "v"
    [] c = "A" -> "a" [] c = "W" -> "w"
    [] OTHER -> c

\* The comparison key of a path: the name itself on POSIX, the case-folded
\* name on Windows.
PathKey(name, windows) ==
  IF windows THEN [i \in 1..Len(name) |-> Lower(name[i])] ELSE name

RECURSIVE LexLessFrom(_, _, _)
LexLessFrom(a, b, i) ==
  IF i > Len(a) THEN i <= Len(b)
  ELSE IF i > Len(b) THEN FALSE
  ELSE IF Ord(a[i]) < Ord(b[i]) THEN TRUE
  ELSE IF Ord(a[i]) > Ord(b[i]) THEN FALSE
  ELSE LexLessFrom(a, b, i + 1)

\* Path.__lt__: lexicographic order of the comparison keys.
PathLess(a, b, windows) ==
  LexLessFrom(PathKey(a, windows), PathKey(b, windows), 1)

\* ------------------------------------------------------------------- names
\* The glob patterns of transcribe_files, each '*' followed by this suffix.
extensions ==
  << <<".", "m", "p", "4">>, <<".", "m", "p", "3">>, <<".", "w", "a", "v">>,
     <<".", "m", "4", "a">>, <<".", "f", "l", "a", "c">>, <<".", "a", "v", "i">>,
     <<".", "m", "o", "v">>, <<".", "m", "k", "v">>, <<".", "M", "P", "4">>,
     <<".", "M", "P", "3">>, <<".", "W", "A", "V">> >>

EndsWith(name, suffix) ==
  /\ Len(name) >= Len(suffix)
  /\ SubSeq(name, Len(name) - Len(suffix) + 1, Len(name)) = suffix

\* Path('.').glob('*' + suffix) over the names of the directory: the match is
\* case-sensitive on POSIX and case-insensitive on Windows.
GlobMatch(name, suffix, windows) ==
  EndsWith(PathKey(name, windows), PathKey(suffix, windows))

\* Index of the last "." of a name, 0 when there is none.
RECURSIVE LastDotFrom(_, _)
LastDotFrom(name, i) ==
  IF i = 0 THEN 0 ELSE IF name[i] = "." THEN i ELSE LastDotFrom(name, i - 1)

\* Path.with_suffix('.srt'): the last suffix is replaced; a name without a
\* suffix (no dot, a leading dot only, or a trailing dot) gets it appended.
WithSuffixSrt(name) ==
  LET i == LastDotFrom(name, Len(name))
      srt == <<".", "s", "r", "t">>
  IN IF i > 1 /\ i < Len(name) THEN SubSeq(name, 1, i - 1) \o srt
     ELSE name \o srt

\* The file names the model's directory may contain.
MediaUniverse ==
  { <<"a", ".", "m", "p", "3">>, <<"a", ".", "m", "p", "4">>,
    <<"b", ".", "M", "K", "V">> }

SrtUniverse == { WithSuffixSrt(n) : n \in MediaUniverse }

AllNames == MediaUniverse \cup SrtUniverse

\* --------------------------------------------------------------- discovery
\* The names of the entries of the working directory.
Listing(d) == { n \in DOMAIN d : d[n].kind # "none" }

\* video_files after the loop over extensions: the concatenation of the
\* matches of every pattern (an entry matched by two patterns occurs twice).
\* Only membership matters afterwards, so the matches are kept per pattern.
GlobAll(d, windows) ==
  [k \in 1..Len(extensions) |->
     { n \in Listing(d) : GlobMatch(n, extensions[k], windows) }]

\* set(video_files)
Dedup(matches) == UNION { matches[k] : k \in DOMAIN matches }

\* The work list in descending instead of ascending path order.
RECURSIVE SortedDescending(_, _)
SortedDescending(S, windows) ==
  IF S = {} THEN <<>>
  ELSE LET m == CHOOSE x \in S :
                  \A y \in S \ {x} : PathLess(y, x, windows)
       IN <<m>> \o SortedDescending(S \ {m}, windows)

\* sorted(S): the elements of S in ascending path order.
RECURSIVE Sorted(_, _)
Sorted(S, windows) ==
  IF S = {} THEN <<>>
  ELSE LET m == CHOOSE x \in S :
                  \A y \in S \ {x} : PathLess(x, y, windows)
       IN <<m>> \o Sorted(S \ {m}, windows)

\* The listing without set(): sorted(video_files), where an entry matched by
\* several patterns occurs once for each of them.
DiscoveryNoDedup(d, windows) ==
  LET matches == GlobAll(d, windows)
      Times(n) == Cardinality({ k \in DOMAIN matches : n \in matches[k] })
      RECURSIVE Repeat(_)
      Repeat(list) ==
        IF list = <<>> THEN <<>>
        ELSE [i \in 1..Times(Head(list)) |-> Head(list)] \o Repeat(Tail(list))
  IN Repeat(Sorted(Dedup(matches), windows))

\* sorted(set(video_files))
Discovery(d, windows) == Sorted(Dedup(GlobAll(d, windows)), windows)

\* -------------------------------------------------------------- serializer
DigitChars == <<"0", "1", "2", "3", "4", "5", "6", "7", "8", "9">>

RECURSIVE Decimal(_)
Decimal(n) ==
  IF n < 10 THEN <<DigitChars[n + 1]>>
  ELSE Decimal(n \div 10) \o <<DigitChars[(n % 10) + 1]>>

\* The format specs 02d and 03d: decimal digits, zero-padded to a minimum
\* width, never truncated.
RECURSIVE ZeroPad(_, _)
ZeroPad(digits, width) ==
  IF Len(digits) >= width THEN digits ELSE ZeroPad(<<"0">> \o digits, width)

RECURSIVE Pow2(_)
Pow2(n) == IF n = 0 THEN 1 ELSE 2 * Pow2(n - 1)

\* 2^k modulo m.
RECURSIVE Pow2Mod(_, _)
Pow2Mod(k, m) == IF k = 0 THEN 1 % m ELSE (2 * Pow2Mod(k - 1, m)) % m

\* The largest e with 2^e <= n, for n >= 1.
RECURSIVE FloorLog2(_)
FloorLog2(n) == IF n < 2 THEN 0 ELSE 1 + FloorLog2(n \div 2)

\* The binary exponent of t/1000 for 1 <= t < 1000 (negative).
RECURSIVE SubUnitExponent(_)
SubUnitExponent(t) == IF t >= 1000 THEN 0 ELSE SubUnitExponent(2 * t) - 1

\* The binary exponent e of the float ms/1000: 2^e <= ms/1000 < 2^(e+1).
FloatExponent(ms) ==
  IF ms >= 1000 THEN FloorLog2(ms \div 1000) ELSE SubUnitExponent(ms)

\* int((seconds % 1) * 1000) in binary64 arithmetic, for the float seconds
\* nearest to ms/1000.  With r = ms % 1000 and 2^-k the unit in the last
\* place of seconds, the fraction seconds % 1 is exactly M / 2^k, M being
\* r * 2^k / 1000 rounded to the nearest integer; rem is what the rounding
\* drops.  When the float lies above ms/1000, or on it, the product is at
\* least r and the result is r.  When it lies below, the product is below r
\* and the result is r - 1, unless the product is so close to r that the
\* multiplication rounds it up to r.
FractionMillis(ms) ==
  LET r   == ms % 1000
      e   == FloatExponent(ms)
      rem == (r * Pow2Mod(52 - e, 1000)) % 1000
      eb  == IF r = 1 THEN -1 ELSE FloorLog2(r - 1)
      t   == eb - 1 - e
  IN IF r = 0 \/ rem = 0 \/ rem > 500 THEN r
     ELSE IF t >= 0 /\ rem <= Pow2(t) THEN r
     ELSE r - 1

\* format_timestamp(seconds), for the float seconds nearest to ms/1000.  The
\* whole part of that float is ms \div 1000, and //, % and int() are exact
\* on it.
format_timestamp(ms) ==
  LET whole   == ms \div 1000
      hours   == whole \div 3600
      minutes == (whole % 3600) \div 60
      secs    == whole % 60
      millis  == FractionMillis(ms)
  IN ZeroPad(Decimal(hours), 2) \o <<":">> \o ZeroPad(Decimal(minutes), 2)
       \o <<":">> \o ZeroPad(Decimal(secs), 2) \o <<",">>
       \o ZeroPad(Decimal(millis), 3)

\* str.strip() on a text of spaces and letters.
RECURSIVE Strip(_)
Strip(text) ==
  IF text = <<>> THEN <<>>
  ELSE IF Head(text) = " " THEN Strip(Tail(text))
  ELSE IF text[Len(text)] = " " THEN Strip(SubSeq(text, 1, Len(text) - 1))
  ELSE text

\* The lines create_srt writes for segment number i: the index, the timing
\* line, the stripped text and the empty line.
SrtBlock(i, segment) ==
  << Decimal(i),
     format_timestamp(segment.start) \o <<" ", "-", "-", ">", " ">>
       \o format_timestamp(segment.end),
     Strip(segment.text),
     <<>> >>

\* The lines create_srt writes for a whole segment list.
RECURSIVE SrtLines(_, _)
SrtLines(segments, n) ==
  IF n = 0 THEN <<>>
  ELSE SrtLines(segments, n - 1) \o SrtBlock(n, segments[n])

create_srt(segments) == SrtLines(segments, Len(segments))

\* -------------------------------------------------------------- recognizer
\* The i-th segment the Recognizer returns: (0, 1.0), (1.0, 2.5), (2.5, 4.0)
\* seconds and so on, with untrimmed text.
SegmentAt(i) ==
  [start |-> IF i = 1 THEN 0 ELSE 1500 * (i - 1) - 500,
   end   |-> 1500 * i - 500,
   text  |-> IF i % 2 = 1 THEN <<" ", "a">> ELSE <<"b", " ">>]

\* result['segments'] for a recording with n segments.
Segments(n) == [i \in 1..n |-> SegmentAt(i)]

\* ------------------------------------------------------------------- files
NoFile == [kind |-> "none", lines |-> <<>>]
MediaFile == [kind |-> "media", lines |-> <<>>]
SrtFile(lines) == [kind |-> "srt", lines |-> lines]

\* A subtitle file that was in the directory before the first run.
OldSrt == SrtFile(<< <<"1">>, <<"o", "l", "d">>, <<>> >>)

\* The resume check with a test that never finds the output file.
ExistsNever(d, name) == FALSE

\* output_file.exists()
Exists(d, name) == name \in DOMAIN d /\ d[name].kind # "none"

\* ------------------------------------------------------------------- state
VARIABLES
  disk,        \* the working directory: file name -> file
  windows,     \* TRUE on a platform with case-insensitive paths
  run,         \* number of the current run of the script
  pc,          \* position of the current run
  dirArg,      \* sys.argv[1]: "none", "exists" or "missing"
  workList,    \* video_files
  idx,         \* position of the current file in video_files
  successful, skipped, failed,   \* the counters of transcribe_files
  result,      \* result['segments'] of the current file
  report,      \* what the run printed as its result
  exitCode,    \* exit code of the process, -1 while it runs
  calls,       \* history: the files model.transcribe was called with
  log,         \* history: the outcome recorded for each file handled
  startDisk,   \* history: the directory when the current run started
  prev,        \* history: how the previous run ended
  interrupted, \* history: a user interrupt was delivered to this run
  partial,     \* history: the output files an interrupted create_srt left
               \* incomplete
  pure         \* the call of a function on its own: function, arguments,
               \* returned value

vars == << disk, windows, run, pc, dirArg, workList, idx, successful, skipped,
           failed, result, report, exitCode, calls, log, startDisk, prev, interrupted,
                  partial, pure >>

\* No function is called on its own while the script runs.
NoCall == [fn |-> "none", seconds |-> 0, segments |-> <<>>, ret |-> <<>>,
           done |-> FALSE]

NoRun == [pc |-> "none", total |-> 0, successful |-> 0, skipped |-> 0,
          failed |-> 0, failedFiles |-> {}, partial |-> {}, workList |-> <<>>]

Init ==
  /\ disk \in [AllNames -> {NoFile, MediaFile, OldSrt}]
  /\ \A n \in MediaUniverse : disk[n] \in {NoFile, MediaFile}
  /\ \A n \in SrtUniverse : disk[n] \in {NoFile, OldSrt}
  /\ windows \in BOOLEAN
  /\ run = 1
  /\ pc = "idle"
  /\ dirArg = "none"
  /\ workList = <<>>
  /\ idx = 0
  /\ successful = 0 /\ skipped = 0 /\ failed = 0
  /\ result = <<>>
  /\ report = "none"
  /\ exitCode = -1
  /\ calls = <<>>
  /\ log = <<>>
  /\ startDisk = disk
  /\ prev = NoRun
  /\ interrupted = FALSE
  /\ partial = {}
  /\ pure = NoCall

\* The process ends: sys.exit(code), or the end of the main block (code 0).
Exit(state, code, printed) ==
  /\ pc' = state
  /\ exitCode' = code
  /\ report' = printed

\* The for loop goes on to the next file, or leaves the loop after the last.
NextFile ==
  /\ idx' = idx + 1
  /\ pc' = IF idx + 1 > Len(workList) THEN "summarizing" ELSE "check_resume"
  /\ result' = <<>>

Record(outcome, wrote) ==
  log' = Append(log, [file |-> workList[idx], outcome |-> outcome,
                      wrote |-> wrote])

\* ------------------------------------------------------------------ actions
\* __main__ up to the call of transcribe_files: fix_ssl_certificates,
\* install_dependencies (every package and ffmpeg found or installed) and the
\* reading of sys.argv.
Bootstrap ==
  /\ pc = "idle"
  /\ dirArg' \in {"none", "exists", "missing"}
  /\ pc' = "entered"
  /\ UNCHANGED << disk, windows, run, workList, idx, successful, skipped,
                  failed, result, report, exitCode, calls, log, startDisk,
                  prev, interrupted,
                  partial, pure >>

\* install_dependencies: pip fails for a package, or ffmpeg is not found:
\* sys.exit(1).
BootstrapFails ==
  /\ pc = "idle"
  /\ Exit("setup_failed", 1, "setup_error")
  /\ UNCHANGED << disk, windows, run, dirArg, workList, idx, successful,
                  skipped, failed, result, calls, log, startDisk, prev, interrupted,
                  partial, pure >>

\* transcribe_files, the working directory: a directory argument that does
\* not exist is reported and the function returns; __main__ then ends.
EnterDirectory ==
  /\ pc = "entered"
  /\ IF dirArg = "missing"
       THEN Exit("no_dir", 0, "no_dir")
       ELSE pc' = "loading" /\ UNCHANGED << exitCode, report >>
  /\ UNCHANGED << disk, windows, run, dirArg, workList, idx, successful,
                  skipped, failed, result, calls, log, startDisk, prev, interrupted,
                  partial, pure >>

\* whisper.load_model returns the model.
LoadModel ==
  /\ pc = "loading"
  /\ pc' = "discovering"
  /\ UNCHANGED << disk, windows, run, dirArg, workList, idx, successful,
                  skipped, failed, result, report, exitCode, calls, log,
                  startDisk, prev, interrupted,
                  partial, pure >>

\* whisper.load_model raises: the exception reaches __main__, sys.exit(1).
LoadModelFails ==
  /\ pc = "loading"
  /\ Exit("crashed", 1, "error")
  /\ UNCHANGED << disk, windows, run, dirArg, workList, idx, successful,
                  skipped, failed, result, calls, log, startDisk, prev, interrupted,
                  partial, pure >>

\* Discover without the early return on an empty list: the loop over the
\* empty list ends at once and the summary follows.
DiscoverNoReturn ==
  /\ pc = "discovering"
  /\ workList' = Discovery(disk, windows)
  /\ pc' = IF workList' = <<>> THEN "summarizing" ELSE "check_resume"
  /\ idx' = 1
  /\ successful' = 0 /\ skipped' = 0 /\ failed' = 0
  /\ UNCHANGED << disk, windows, run, dirArg, result, report, exitCode,
                  calls, log, startDisk, prev, interrupted,
                  partial, pure >>

\* The listing of the media files; an empty list is reported and the
\* function returns, otherwise the counters are created and the loop starts.
Discover ==
  /\ pc = "discovering"
  /\ workList' = Discovery(disk, windows)
  /\ IF workList' = <<>>
       THEN /\ Exit("no_files", 0, "no_files")
            /\ UNCHANGED << idx, successful, skipped, failed >>
       ELSE /\ pc' = "check_resume"
            /\ idx' = 1
            /\ successful' = 0 /\ skipped' = 0 /\ failed' = 0
            /\ UNCHANGED << exitCode, report >>
  /\ UNCHANGED << disk, windows, run, dirArg, result, calls, log, startDisk,
                  prev, interrupted,
                  partial, pure >>

\* CheckResume without the resume check: every file goes to the Recognizer.
CheckResumeAlways ==
  /\ pc = "check_resume"
  /\ pc' = "recognize"
  /\ UNCHANGED << disk, windows, run, dirArg, workList, idx, successful,
                  skipped, failed, result, report, exitCode, calls, log,
                  startDisk, prev, interrupted, partial, pure >>

\* The head of the loop body: an existing output file is skipped.
CheckResume ==
  /\ pc = "check_resume"
  /\ IF Exists(disk, WithSuffixSrt(workList[idx]))
       THEN /\ skipped' = skipped + 1
            /\ Record("skipped", FALSE)
            /\ NextFile
       ELSE /\ pc' = "recognize"
            /\ UNCHANGED << skipped, log, idx, result >>
  /\ UNCHANGED << disk, windows, run, dirArg, workList, successful, failed,
                  report, exitCode, calls, startDisk, prev, interrupted,
                  partial, pure >>

\* Recognize with the file counted as successful as soon as the segments are
\* there, before the output file is written.
RecognizeCountsEarly ==
  /\ pc = "recognize"
  /\ \E n \in 0..MaxSegs : result' = Segments(n)
  /\ calls' = Append(calls, workList[idx])
  /\ successful' = successful + 1
  /\ pc' = "serialize"
  /\ UNCHANGED << disk, windows, run, dirArg, workList, idx,
                  skipped, failed, report, exitCode, log, startDisk, prev, interrupted,
                  partial, pure >>

\* model.transcribe returns the segments of the file.
Recognize ==
  /\ pc = "recognize"
  /\ \E n \in 0..MaxSegs : result' = Segments(n)
  /\ calls' = Append(calls, workList[idx])
  /\ pc' = "serialize"
  /\ UNCHANGED << disk, windows, run, dirArg, workList, idx, successful,
                  skipped, failed, report, exitCode, log, startDisk, prev, interrupted,
                  partial, pure >>

\* RecognizeFails without the increment of failed.
RecognizeFailsUncounted ==
  /\ pc = "recognize"
  /\ calls' = Append(calls, workList[idx])
  /\ Record("failed", FALSE)
  /\ NextFile
  /\ UNCHANGED << disk, windows, run, dirArg, workList, successful, skipped,
                  failed, report, exitCode, startDisk, prev, interrupted,
                  partial, pure >>

\* RecognizeFails with the file tried again instead of counted as failed.
RecognizeFailsRetries ==
  /\ pc = "recognize"
  /\ pc' = "check_resume"
  /\ UNCHANGED << disk, windows, run, dirArg, workList, idx, successful,
                  skipped, failed, result, report, exitCode, calls, log,
                  startDisk, prev, interrupted, partial, pure >>

\* model.transcribe raises: except Exception counts the file as failed.
RecognizeFails ==
  /\ pc = "recognize"
  /\ calls' = Append(calls, workList[idx])
  /\ failed' = failed + 1
  /\ Record("failed", FALSE)
  /\ NextFile
  /\ UNCHANGED << disk, windows, run, dirArg, workList, successful, skipped,
                  report, exitCode, startDisk, prev, interrupted,
                  partial, pure >>

\* Serialize with the blocks written to a path other than the output file.
SerializeElsewhere ==
  /\ pc = "serialize"
  /\ pc' = "record_outcome"
  /\ UNCHANGED << disk, windows, run, dirArg, workList, idx, successful,
                  skipped, failed, result, report, exitCode, calls, log,
                  startDisk, prev, interrupted,
                  partial, pure >>

\* Serialize with the blocks written over the media file itself.
SerializeOverSource ==
  /\ pc = "serialize"
  /\ disk' = [disk EXCEPT ![workList[idx]] = SrtFile(create_srt(result))]
  /\ pc' = "record_outcome"
  /\ UNCHANGED << windows, run, dirArg, workList, idx, successful, skipped,
                  failed, result, report, exitCode, calls, log, startDisk,
                  prev, interrupted, partial, pure >>

\* create_srt writes every block of the file.
Serialize ==
  /\ pc = "serialize"
  /\ disk' = [disk EXCEPT
                ![WithSuffixSrt(workList[idx])] = SrtFile(create_srt(result))]
  /\ pc' = "record_outcome"
  /\ UNCHANGED << windows, run, dirArg, workList, idx, successful, skipped,
                  failed, result, report, exitCode, calls, log, startDisk,
                  prev, interrupted,
                  partial, pure >>

\* SerializeOpenFails with the failure swallowed: no file is created and the
\* file is counted as successful.
SerializeOpenFailsCounted ==
  /\ pc = "serialize"
  /\ successful' = successful + 1
  /\ Record("successful", FALSE)
  /\ NextFile
  /\ UNCHANGED << disk, windows, run, dirArg, workList, failed, skipped,
                  report, exitCode, calls, startDisk, prev, interrupted,
                  partial, pure >>

\* create_srt raises in open(): no file is created; the file is counted as
\* failed.
SerializeOpenFails ==
  /\ pc = "serialize"
  /\ failed' = failed + 1
  /\ Record("failed", FALSE)
  /\ NextFile
  /\ UNCHANGED << disk, windows, run, dirArg, workList, successful, skipped,
                  report, exitCode, calls, startDisk, prev, interrupted,
                  partial, pure >>

\* create_srt raises while it handles block k: open() has created the file
\* and the blocks before k are in it; the file is counted as failed.
SerializeWriteFails ==
  /\ pc = "serialize"
  /\ \E k \in 1..Len(result) :
       disk' = [disk EXCEPT
                  ![WithSuffixSrt(workList[idx])] =
                      SrtFile(SrtLines(result, k - 1))]
  /\ failed' = failed + 1
  /\ Record("failed", TRUE)
  /\ NextFile
  /\ UNCHANGED << windows, run, dirArg, workList, successful, skipped,
                  report, exitCode, calls, startDisk, prev, interrupted,
                  partial, pure >>

\* The end of the try block: the file is counted as successful.
RecordOutcome ==
  /\ pc = "record_outcome"
  /\ successful' = successful + 1
  /\ Record("successful", TRUE)
  /\ NextFile
  /\ UNCHANGED << disk, windows, run, dirArg, workList, skipped, failed,
                  report, exitCode, calls, startDisk, prev, interrupted,
                  partial, pure >>

\* The final summary; transcribe_files returns and __main__ ends.
Summarize ==
  /\ pc = "summarizing"
  /\ Exit("done", 0, "summary")
  /\ UNCHANGED << disk, windows, run, dirArg, workList, idx, successful,
                  skipped, failed, result, calls, log, startDisk, prev, interrupted,
                  partial, pure >>

\* RecognizeInterrupted with the interrupt caught by the per-file handler, as
\* a failure of the file.
RecognizeInterruptedCaught ==
  /\ pc = "recognize"
  /\ calls' = Append(calls, workList[idx])
  /\ failed' = failed + 1
  /\ Record("failed", FALSE)
  /\ NextFile
  /\ interrupted' = TRUE
  /\ UNCHANGED << disk, windows, run, dirArg, workList, successful, skipped,
                  report, exitCode, startDisk, prev, partial, pure >>

\* A user interrupt during model.transcribe: except KeyboardInterrupt prints
\* and re-raises, __main__ reports the interruption and calls sys.exit(0).
RecognizeInterrupted ==
  /\ pc = "recognize"
  /\ calls' = Append(calls, workList[idx])
  /\ Exit("aborted", 0, "interrupted")
  /\ UNCHANGED << disk, windows, run, dirArg, workList, idx, successful,
                  skipped, failed, result, log, startDisk, prev, partial, pure >>
  /\ interrupted' = TRUE

\* SerializeInterrupted with the incomplete file removed again before the
\* interrupt is passed on.
SerializeInterruptedCleansUp ==
  /\ pc = "serialize"
  /\ \/ UNCHANGED << disk, partial >>
     \/ \E j \in 0..Len(create_srt(result)) :
          /\ UNCHANGED disk
          /\ partial' = IF j < Len(create_srt(result))
                          THEN partial \cup {WithSuffixSrt(workList[idx])}
                          ELSE partial
  /\ Exit("aborted", 0, "interrupted")
  /\ UNCHANGED << windows, run, dirArg, workList, idx, successful, skipped,
                  failed, result, calls, log, startDisk, prev, pure >>
  /\ interrupted' = TRUE

\* A user interrupt during create_srt, before open() (no file) or after j
\* of the lines were written (the with statement closes the file).
SerializeInterrupted ==
  /\ pc = "serialize"
  /\ \/ UNCHANGED << disk, partial >>
     \/ \E j \in 0..Len(create_srt(result)) :
          /\ disk' = [disk EXCEPT
                        ![WithSuffixSrt(workList[idx])] =
                            SrtFile(SubSeq(create_srt(result), 1, j))]
          /\ partial' = IF j < Len(create_srt(result))
                          THEN partial \cup {WithSuffixSrt(workList[idx])}
                          ELSE partial
  /\ Exit("aborted", 0, "interrupted")
  /\ UNCHANGED << windows, run, dirArg, workList, idx, successful, skipped,
                  failed, result, calls, log, startDisk, prev, pure >>
  /\ interrupted' = TRUE

\* A user interrupt at any other point of transcribe_files: the exception
\* reaches __main__, which reports it and calls sys.exit(0).
Interrupted ==
  /\ pc \in {"entered", "loading", "discovering", "check_resume",
             "record_outcome", "summarizing"}
  /\ Exit("aborted", 0, "interrupted")
  /\ UNCHANGED << disk, windows, run, dirArg, workList, idx, successful,
                  skipped, failed, result, calls, log, startDisk, prev, partial, pure >>
  /\ interrupted' = TRUE

Terminated == exitCode # -1

\* The user runs the script again over the directory as the last run left it.
NextRun ==
  /\ Terminated
  /\ run < MaxRuns
  /\ run' = run + 1
  /\ prev' = [pc |-> pc, total |-> Len(workList), successful |-> successful,
              skipped |-> skipped, failed |-> failed,
              failedFiles |-> { log[k].file : k \in
                                  { m \in 1..Len(log) :
                                      log[m].outcome = "failed" } },
              partial |-> partial,
              workList |-> workList]
  /\ startDisk' = disk
  /\ pc' = "idle"
  /\ dirArg' = "none"
  /\ workList' = <<>>
  /\ idx' = 0
  /\ successful' = 0 /\ skipped' = 0 /\ failed' = 0
  /\ result' = <<>>
  /\ report' = "none"
  /\ exitCode' = -1
  /\ calls' = <<>>
  /\ log' = <<>>
  /\ interrupted' = FALSE
  /\ UNCHANGED << disk, windows, partial, pure >>

Next ==
  \/ Bootstrap
  \/ BootstrapFails
  \/ EnterDirectory
  \/ LoadModel
  \/ LoadModelFails
  \/ Discover
  \/ CheckResume
  \/ Recognize
  \/ RecognizeFails
  \/ RecognizeInterrupted
  \/ Serialize
  \/ SerializeOpenFails
  \/ SerializeWriteFails
  \/ SerializeInterrupted
  \/ RecordOutcome
  \/ Summarize
  \/ Interrupted
  \/ NextRun

Spec == Init /\ [][Next]_vars

\* The steps of the loop and the summary that are the script's own code: the
\* interpreter goes on to the next statement, and open() and write() on a
\* local file return or raise.  model.transcribe is not among them: nothing
\* bounds the time it takes.  Neither is a user interrupt, which may never
\* come.
Progress ==
  \/ CheckResume
  \/ RecordOutcome
  \/ Summarize
  \/ SerializeOpenFails
  \/ SerializeWriteFails
  \/ Serialize

LiveSpec == Init /\ [][Next]_vars /\ WF_vars(Progress)

TypeOK ==
  /\ pc \in {"idle", "entered", "loading", "discovering", "check_resume",
             "recognize", "serialize", "record_outcome", "summarizing",
             "done", "no_files", "no_dir", "aborted", "crashed",
             "setup_failed"}
  /\ exitCode \in {-1, 0, 1}
  /\ run \in 1..MaxRuns
  /\ idx \in 0..(Len(workList) + 1)

\* ---------------------------------------------------------------- the loop
\* The outcomes of the for loop from position k on, over the files of `list`
\* and the set `existing` of output files on disk, when the file `forced`
\* is recognized and serialized without a failure and every other file
\* behaves as the log of the current run recorded it.
RECURSIVE Replay(_, _, _, _)
Replay(list, existing, k, forced) ==
  IF k > Len(list) THEN <<>>
  ELSE LET out == WithSuffixSrt(list[k])
       IN IF out \in existing
            THEN <<"skipped">> \o Replay(list, existing, k + 1, forced)
          ELSE IF list[k] = forced
            THEN <<"successful">>
                   \o Replay(list, existing \cup {out}, k + 1, forced)
          ELSE <<log[k].outcome>>
                 \o Replay(list,
                           IF log[k].wrote THEN existing \cup {out}
                                           ELSE existing,
                           k + 1, forced)

\* ------------------------------------------------------------------ claims
\* C1 as stated: whatever happened to the files of a first completed run,
\* the second completed run over the same directory skips every discovered
\* media file, counts none as successful and leaves every output file as the
\* first run left it.
C1_IdempotentAfterAnyFirstRun ==
  (run >= 2 /\ prev.pc \in {"done", "no_files"} /\ pc \in {"done", "no_files"})
    => /\ skipped = Len(workList)
       /\ successful = 0
       /\ \A n \in SrtUniverse :
            startDisk[n].kind # "none" => disk[n] = startDisk[n]

\* C1 amended: when the first run completed with failed = 0, the second
\* completed run over the same directory skips every discovered media file,
\* counts none as successful and leaves every output file as the first run
\* left it.
C1_IdempotentAfterCleanRun ==
  (/\ run >= 2
   /\ prev.pc \in {"done", "no_files"}
   /\ prev.failed = 0
   /\ pc \in {"done", "no_files"})
    => /\ skipped = Len(workList)
       /\ successful = 0
       /\ \A n \in SrtUniverse :
            startDisk[n].kind # "none" => disk[n] = startDisk[n]

\* C1 witness: a second run has completed after a first run that transcribed
\* at least one file and failed on none.
C1_Witness ==
  /\ run = 2
  /\ prev.pc = "done" /\ prev.failed = 0 /\ prev.successful >= 1
  /\ pc = "done"
  /\ skipped = Len(workList)

\* C3: a step taken at the resume check of a file whose output file is on
\* disk either is the abort by a user interrupt, or adds exactly 1 to
\* skipped, leaves successful and failed alone, does not call the Recognizer
\* and moves to the next position of the work list.
C3_ResumeCheckSkips ==
  [][ (pc = "check_resume"
        /\ disk[WithSuffixSrt(workList[idx])].kind # "none")
      => \/ /\ pc' = "aborted"
            /\ UNCHANGED << skipped, successful, failed, calls >>
         \/ /\ skipped' = skipped + 1
            /\ UNCHANGED << successful, failed, calls, disk >>
            /\ idx' = idx + 1
            /\ pc' \in {"check_resume", "summarizing"} ]_vars

\* C3 witness: the last file handled was skipped because its output file
\* existed, and the Recognizer has not been called in this run.
C3_Witness ==
  /\ Len(log) >= 1
  /\ log[Len(log)].outcome = "skipped"
  /\ skipped >= 1
  /\ calls = <<>>
  /\ pc \in {"check_resume", "summarizing"}

\* C2: in a completed run every file of the work list was handled, and for
\* every file i that failed, the outcome of each other file is the outcome
\* it has in the run in which i does not fail and all else is the same.
C2_Isolation ==
  pc = "done"
    => /\ Len(log) = Len(workList)
       /\ \A i \in 1..Len(log) :
            log[i].outcome = "failed"
              => \A j \in 1..Len(log) :
                   j # i =>
                     Replay(workList,
                            { n \in SrtUniverse : startDisk[n].kind # "none" },
                            1, workList[i])[j] = log[j].outcome

\* C4: the step in which a user interrupt arrives during recognition or
\* serialization changes no counter and records no outcome, aborts the run
\* with exit code 0 and without a summary; and after an interrupt the run
\* calls the Recognizer no more and changes no counter and no report.
C4_Cancellation ==
  [][ /\ (pc \in {"recognize", "serialize"} /\ ~interrupted /\ interrupted')
        => /\ UNCHANGED << successful, skipped, failed, log >>
           /\ pc' = "aborted"
           /\ exitCode' = 0
           /\ report' = "interrupted"
      /\ (interrupted /\ run' = run)
        => UNCHANGED << successful, skipped, failed, log, calls, report,
                        exitCode, disk >> ]_vars

\* C4 witness: a run was interrupted while its second file was being
\* serialized, after the first file had been counted.
C4_Witness ==
  /\ interrupted
  /\ pc = "aborted"
  /\ exitCode = 0
  /\ Len(log) = 1
  /\ Len(calls) = 2
  /\ idx = 2
  /\ result # <<>>

\* C5: at the end of a completed run no file counted as failed has an output
\* file on disk; a later completed run over the directory calls the
\* Recognizer for every file the run before counted as failed; and no run
\* calls the Recognizer twice for one file.
C5_FailedLeavesNoOutput ==
  /\ pc = "done"
       => \A k \in 1..Len(log) :
            log[k].outcome = "failed"
              => disk[WithSuffixSrt(log[k].file)].kind = "none"
  /\ (run >= 2 /\ prev.pc = "done" /\ pc = "done")
       => \A f \in prev.failedFiles : \E c \in 1..Len(calls) : calls[c] = f
  /\ \A c, e \in 1..Len(calls) : c # e => calls[c] # calls[e]

\* C6: the counters are 0 when the loop starts; every step that finishes a
\* file adds exactly 1 to exactly one of them; while the loop runs they sum
\* to the number of files handled; and after the loop they sum to the length
\* of the work list.
C6_CounterAccounting ==
  /\ [](/\ successful + skipped + failed = Len(log)
        /\ pc \in {"check_resume", "recognize", "serialize", "record_outcome"}
             => Len(log) = idx - 1
        /\ pc \in {"summarizing", "done"}
             => successful + skipped + failed = Len(workList))
  /\ [][ /\ (pc = "discovering" /\ pc' = "check_resume")
           => (successful' = 0 /\ skipped' = 0 /\ failed' = 0)
         /\ (idx >= 1 /\ idx' = idx + 1)
           => \/ /\ successful' = successful + 1
                 /\ UNCHANGED << skipped, failed >>
              \/ /\ skipped' = skipped + 1
                 /\ UNCHANGED << successful, failed >>
              \/ /\ failed' = failed + 1
                 /\ UNCHANGED << successful, skipped >> ]_vars

\* C6 witness: a completed run over three files with one successful, one
\* skipped and one failed.
C6_Witness ==
  /\ pc = "done"
  /\ Len(workList) = 3
  /\ successful = 1 /\ skipped = 1 /\ failed = 1

\* C7: a run that ended because the directory given on the command line
\* does not exist, or because the bootstrap found a required tool missing,
\* reported the error, discovered and processed no media file, and exited
\* with code 1.
C7_SetupErrorsFatal ==
  (/\ exitCode # -1
   /\ ~interrupted
   /\ (dirArg = "missing" \/ pc = "setup_failed"))
    => /\ exitCode = 1
       /\ report \in {"no_dir", "setup_error"}
       /\ workList = <<>>
       /\ calls = <<>>
       /\ disk = startDisk

\* C8: two distinct media files of the work list have distinct output file
\* paths; a file is skipped only for an output file that was on disk when
\* the run started; and no output file is written for two media files.
C8_OutputOneToOne ==
  /\ \A i, j \in 1..Len(workList) :
       i # j => WithSuffixSrt(workList[i]) # WithSuffixSrt(workList[j])
  /\ \A k \in 1..Len(log) :
       log[k].outcome = "skipped"
         => startDisk[WithSuffixSrt(log[k].file)].kind # "none"
  /\ \A k, m \in 1..Len(log) :
       (k # m /\ log[k].wrote /\ log[m].wrote)
         => WithSuffixSrt(log[k].file) # WithSuffixSrt(log[m].file)

\* C9: the work list is in strictly ascending path order; the outcomes are
\* recorded in work list order, the k-th recorded outcome being that of the
\* k-th file; while a file is in progress it is the only one, the outcomes
\* of all files before it are recorded and of none after it; and every call
\* of the Recognizer is for a file whose predecessors all have their outcome.
C9_SequentialOrder ==
  /\ \A i, j \in 1..Len(workList) :
       i < j => PathLess(workList[i], workList[j], windows)
  /\ Len(log) <= Len(workList)
  /\ \A k \in 1..Len(log) : log[k].file = workList[k]
  /\ pc \in {"check_resume", "recognize", "serialize", "record_outcome"}
       => (idx \in 1..Len(workList) /\ Len(log) = idx - 1)
  /\ pc \in {"serialize", "record_outcome"}
       => (calls # <<>> /\ calls[Len(calls)] = workList[idx])
  /\ \A c \in 1..Len(calls) :
       \E k \in 1..Len(workList) :
         /\ calls[c] = workList[k]
         /\ k <= Len(log) + 1
         /\ c > 1 => \E m \in 1..(k - 1) : calls[c - 1] = workList[m]

\* C9 witness: a run over three files has handled the first two, in order,
\* and the Recognizer has returned for the third.
C9_Witness ==
  /\ Len(workList) = 3
  /\ Len(log) = 2
  /\ pc = "serialize"
  /\ idx = 3
  /\ Len(calls) >= 2

C11_PartialWriteGap ==
  /\ \A n \in partial : disk[n].kind = "srt"
  /\ \A n \in prev.partial : disk[n] = startDisk[n]
  /\ \A k \in 1..Len(log) :
       WithSuffixSrt(log[k].file) \in prev.partial
         => log[k].outcome = "skipped"
  /\ \A c \in 1..Len(calls) : WithSuffixSrt(calls[c]) \notin prev.partial

\* C11 witness: the run before was interrupted while it wrote an output
\* file, the file on disk is shorter than one block, and this run has
\* completed and skipped the media file.
C11_Witness ==
  /\ run >= 2
  /\ prev.pc = "aborted"
  /\ pc = "done"
  /\ \E k \in 1..Len(log) :
       /\ WithSuffixSrt(log[k].file) \in prev.partial
       /\ log[k].outcome = "skipped"
       /\ Len(disk[WithSuffixSrt(log[k].file)].lines) \in 1..3

\* C12: during a run no media file changes and no file that was in the
\* directory when the run started changes; and every step that changes a
\* file is made while the current media file is serialized and changes only
\* the output file of that media file, which did not exist before the step.
C12_FrameOfRun ==
  /\ [](/\ \A n \in MediaUniverse : disk[n] = startDisk[n]
        /\ \A n \in AllNames :
             startDisk[n].kind # "none" => disk[n] = startDisk[n])
  /\ [][ \A n \in AllNames :
           disk'[n] # disk[n]
             => /\ pc = "serialize"
                /\ idx \in 1..Len(workList)
                /\ n = WithSuffixSrt(workList[idx])
                /\ disk[n].kind = "none"
                /\ disk'[n].kind = "srt" ]_vars

\* C12 witness: a completed run has written the output file of one media
\* file and has left alone an output file that existed before the run.
C12_Witness ==
  /\ pc = "done"
  /\ successful >= 1
  /\ skipped >= 1
  /\ \E n, m \in SrtUniverse :
       /\ startDisk[n] = OldSrt /\ disk[n] = OldSrt
       /\ startDisk[m].kind = "none" /\ disk[m].kind = "srt"

\* ------------------------------------------- the serializer called directly
\* The times format_timestamp is called with: every combination of a few
\* hours, minutes, seconds and milliseconds, in milliseconds.
TimeSamples ==
  { 1000 * (3600 * h + 60 * m + sec) + f :
      h \in {0, 1, 24}, m \in {0, 1, 59}, sec \in {0, 1, 59},
      f \in {0, 1, 250, 500, 999} }

\* The segments create_srt is called with: a start before an end, and a text
\* that may have spaces around and within it.
SegmentSamples ==
  { [start |-> a, end |-> b, text |-> t] :
      a \in {0, 1000, 2500}, b \in {1000, 2500, 3661999},
      t \in { <<"a">>, <<" ", "a">>, <<"b", " ">>, <<"a", " ", "b">> } }

SegmentLists ==
  UNION { [1..n -> { g \in SegmentSamples : g.start < g.end }] : n \in 0..MaxSegs }

\* A caller is about to call format_timestamp or create_srt; the script
\* itself is not running.
InitPure ==
  /\ disk = [n \in AllNames |-> NoFile]
  /\ windows = FALSE
  /\ run = 1
  /\ pc = "idle"
  /\ dirArg = "none"
  /\ workList = <<>>
  /\ idx = 0
  /\ successful = 0 /\ skipped = 0 /\ failed = 0
  /\ result = <<>>
  /\ report = "none"
  /\ exitCode = -1
  /\ calls = <<>>
  /\ log = <<>>
  /\ startDisk = disk
  /\ prev = NoRun
  /\ interrupted = FALSE
  /\ partial = {}
  /\ \/ \E ms \in TimeSamples :
          pure = [NoCall EXCEPT !.fn = "format_timestamp", !.seconds = ms]
     \/ \E segments \in SegmentLists :
          pure = [NoCall EXCEPT !.fn = "create_srt", !.segments = segments]

\* format_timestamp(seconds) returns.
CallFormatTimestamp ==
  /\ pure.fn = "format_timestamp"
  /\ ~pure.done
  /\ pure' = [pure EXCEPT !.ret = format_timestamp(pure.seconds), !.done = TRUE]
  /\ UNCHANGED << disk, windows, run, pc, dirArg, workList, idx, successful,
                  skipped, failed, result, report, exitCode, calls, log,
                  startDisk, prev, interrupted, partial >>

\* create_srt(segments, output_path) returns; ret is the lines of the file.
CallCreateSrt ==
  /\ pure.fn = "create_srt"
  /\ ~pure.done
  /\ pure' = [pure EXCEPT !.ret = create_srt(pure.segments), !.done = TRUE]
  /\ UNCHANGED << disk, windows, run, pc, dirArg, workList, idx, successful,
                  skipped, failed, result, report, exitCode, calls, log,
                  startDisk, prev, interrupted, partial >>

NextPure ==
  \/ CallFormatTimestamp
  \/ CallCreateSrt

SpecPure == InitPure /\ [][NextPure]_vars

\* ------------------------------------------------------------------- C13
\* C13: for every non-negative time, format_timestamp gives HH:MM:SS,mmm
\* with hours = whole seconds div 3600 in at least two digits, minutes =
\* (whole seconds mod 3600) div 60, seconds = whole seconds mod 60 and
\* milliseconds = the millisecond part of the time, cut and not rounded;
\* 0.0 gives 00:00:00,000, 61.25 gives 00:01:01,250, 3661.999 gives
\* 01:01:01,999 and 86401 gives 24:00:01,000.
C13_TimestampFormat ==
  (pure.fn = "format_timestamp" /\ pure.done) =>
    LET ms    == pure.seconds
        whole == ms \div 1000
    IN /\ pure.ret =
            ZeroPad(Decimal(whole \div 3600), 2) \o <<":">>
              \o ZeroPad(Decimal((whole % 3600) \div 60), 2) \o <<":">>
              \o ZeroPad(Decimal(whole % 60), 2) \o <<",">>
              \o ZeroPad(Decimal(ms % 1000), 3)
       /\ ms = 0 =>
            pure.ret = <<"0","0",":","0","0",":","0","0",",","0","0","0">>
       /\ ms = 61250 =>
            pure.ret = <<"0","0",":","0","1",":","0","1",",","2","5","0">>
       /\ ms = 3661999 =>
            pure.ret = <<"0","1",":","0","1",":","0","1",",","9","9","9">>
       /\ ms = 86401000 =>
            pure.ret = <<"2","4",":","0","0",":","0","1",",","0","0","0">>

\* ------------------------------------------------------------------- C14
\* C14: for every segment list of length n, create_srt writes exactly n
\* blocks in segment order and nothing else; block j is the index j, the
\* line START --> END, the segment's text without the spaces around it, and
\* one empty line; reading the file back gives the index, the start, the end
\* and the text of every input segment.
C14_SerializationRoundTrip ==
  (pure.fn = "create_srt" /\ pure.done) =>
    LET segments == pure.segments
        lines    == pure.ret
        n        == Len(segments)
        Digit(c) == CHOOSE d \in 0..9 : DigitChars[d + 1] = c
        RECURSIVE Number(_)
        Number(t) ==
          IF t = <<>> THEN 0
          ELSE 10 * Number(SubSeq(t, 1, Len(t) - 1)) + Digit(t[Len(t)])
        IsNumber(t) ==
          t # <<>> /\ \A k \in 1..Len(t) : \E d \in 0..9 : DigitChars[d + 1] = t[k]
        \* HH:MM:SS,mmm read back as milliseconds
        IsTime(t) ==
          /\ Len(t) >= 12
          /\ t[Len(t) - 9] = ":" /\ t[Len(t) - 6] = ":" /\ t[Len(t) - 3] = ","
          /\ IsNumber(SubSeq(t, 1, Len(t) - 10))
          /\ IsNumber(SubSeq(t, Len(t) - 8, Len(t) - 7))
          /\ IsNumber(SubSeq(t, Len(t) - 5, Len(t) - 4))
          /\ IsNumber(SubSeq(t, Len(t) - 2, Len(t)))
        Time(t) ==
          1000 * ( 3600 * Number(SubSeq(t, 1, Len(t) - 10))
                   + 60 * Number(SubSeq(t, Len(t) - 8, Len(t) - 7))
                   + Number(SubSeq(t, Len(t) - 5, Len(t) - 4)) )
            + Number(SubSeq(t, Len(t) - 2, Len(t)))
        Arrow == <<" ", "-", "-", ">", " ">>
        Spaces(k) == [i \in 1..k |-> " "]
    IN /\ Len(lines) = 4 * n
       /\ \A j \in 1..n :
            LET index  == lines[4 * j - 3]
                timing == lines[4 * j - 2]
                text   == lines[4 * j - 1]
            IN /\ IsNumber(index) /\ Number(index) = j
               /\ \E p \in 1..Len(timing) :
                    /\ p + 5 <= Len(timing)
                    /\ SubSeq(timing, p, p + 4) = Arrow
                    /\ IsTime(SubSeq(timing, 1, p - 1))
                    /\ IsTime(SubSeq(timing, p + 5, Len(timing)))
                    /\ Time(SubSeq(timing, 1, p - 1)) = segments[j].start
                    /\ Time(SubSeq(timing, p + 5, Len(timing))) = segments[j].end
               /\ text # <<>> /\ Head(text) # " " /\ text[Len(text)] # " "
               /\ \E a, b \in 0..Len(segments[j].text) :
                    segments[j].text = Spaces(a) \o text \o Spaces(b)
               /\ lines[4 * j] = <<>>

C18_RecognizerCalls ==
  /\ []( \A c, d \in 1..Len(calls) : c # d => calls[c] # calls[d] )
  /\ []( pc = "done"
           => /\ Len(calls) = successful + failed
              /\ successful + failed = Len(workList) - skipped )
  /\ [][ Len(calls') > Len(calls)
           => /\ pc = "recognize"
              /\ calls' = Append(calls, workList[idx])
              /\ disk[WithSuffixSrt(workList[idx])].kind = "none"
              /\ Len(log) = idx - 1 ]_vars

\* C18 witness: a run over three files that was not cancelled skipped one
\* file and called the Recognizer for the other two, one of which failed.
C18_Witness ==
  /\ pc = "done"
  /\ Len(workList) = 3
  /\ skipped = 1
  /\ successful = 1
  /\ failed = 1
  /\ Len(calls) = 2

\* ------------------------------------------------------------------- C19
\* C19: at the end of a run that was not cancelled every media file counted
\* as successful or skipped has its output file on disk; so after a run with
\* failed = 0 every listed media file has an output file; and no step of any
\* run removes an output file, so over successive runs the set of existing
\* output files never shrinks.
C19_Completion ==
  /\ []( pc = "done"
           => /\ \A k \in 1..Len(log) :
                   log[k].outcome \in {"successful", "skipped"}
                     => disk[WithSuffixSrt(log[k].file)].kind = "srt"
              /\ successful + skipped + failed = Len(workList)
              /\ failed = 0
                   => \A i \in 1..Len(workList) :
                        disk[WithSuffixSrt(workList[i])].kind = "srt" )
  /\ [][ \A n \in SrtUniverse :
           disk[n].kind # "none" => disk'[n].kind # "none" ]_vars

\* C19 witness: a second run without failures ended; it wrote an output file
\* that the first run had not left, skipped a file, and every listed file
\* has its output file.
C19_Witness ==
  /\ run >= 2
  /\ pc = "done"
  /\ failed = 0
  /\ successful >= 1
  /\ skipped >= 1
  /\ \E n \in SrtUniverse : startDisk[n].kind = "none" /\ disk[n].kind = "srt"
  /\ \A i \in 1..Len(workList) : disk[WithSuffixSrt(workList[i])].kind = "srt"

====
